---- MODULE Spec2Model ----
(***************************************************************************)
(* Key handling of wdk-wallet-tron: the BIP-32 private-key derivation      *)
(* (derivePrivateKeyBuffer and its helpers: encodeUInt32BE, parsePath,     *)
(* compareWithCurveOrder, isBufferZero, addPrivateKeys,                    *)
(* subtractFromPrivateKey), the accounts and the manager that own the key  *)
(* material (WalletAccountTron, WalletManagerTron) and the signing keys    *)
(* (MemorySafeSigningKey).                                                 *)
(*                                                                         *)
(* Scaling.  The source works on 32-byte keys of 8-bit bytes.  The model   *)
(* keeps the algorithms byte for byte but scales the widths: a key has     *)
(* KeyLen bytes, a chain code ChainLen bytes, a byte holds 0..ByteBase-1   *)
(* (`x & 0xff` is x % ByteBase, `x >> 8` is x \div ByteBase).  The curve   *)
(* order keeps the shape of secp256k1's n = 2^256 - c with c < 2^129: it   *)
(* is the top of the key range minus a gap of about the square root of     *)
(* the range, so that n is larger than half the range.                     *)
(*                                                                         *)
(* HMAC-SHA512 is a library primitive; in the derivation function on its   *)
(* own each call is modelled as a choice among all outputs of the right    *)
(* length.  In the wallet, where one seed is derived from several times,   *)
(* it is a fixed function of its key and data (Hmac).                      *)
(*                                                                         *)
(* The module holds several state machines over one set of variables:     *)
(* the derivation function (Spec), the path parser (SpecParse), the        *)
(* wallet manager with its accounts (SpecWallet, SpecKeyPair, SpecHeld),   *)
(* a signing key object (SpecKey), the fee quotes and the token transfer   *)
(* of an account (SpecTransfer), the HDKey-backed account class            *)
(* (SpecHDKey) and the byte arithmetic called on its own (SpecArith).      *)
(* Buffers are heap objects: an account record keeps the bytes of its      *)
(* three Uint8Arrays, and fieldsNull tells whether the account's fields    *)
(* still refer to them.  Fees are in sun, not scaled.                      *)
(*                                                                         *)
(* Path indices reach 2^32, so JavaScript numbers are kept as two limbs    *)
(* [hi, lo] of 16 bits each (value = hi * 2^16 + lo).                      *)
(***************************************************************************)
EXTENDS Integers, Sequences, FiniteSets, TLC

\* ------------------------------------------------------------------ bounds
\* bytes of a private key (PRIVATE_KEY_SIZE = 32 in the source)
KeyLen == 3
\* bytes of a chain code (32 in the source: hmacOutputBuffer.subarray(32))
ChainLen == 1
\* longest path string enumerated by the path-parser specification
MaxPathLen == 5

\* ------------------------------------------------------- program constants
\* radix of one key byte: `& 0xff` and `>> 8` in the source, scaled from 256
ByteBase == 2

PRIVATE_KEY_SIZE == KeyLen

\* secp256k1.CURVE.n, scaled
CurveN == ByteBase^KeyLen - ByteBase^(KeyLen \div 2) - 1

LimbBase == 2^16

\* a JavaScript number that is a non-negative integer, or NaN
Num(h, l) == [nan |-> FALSE, hi |-> h, lo |-> l]
NaN == [nan |-> TRUE, hi |-> 0, lo |-> 0]

\* 0x80000000
HARDENED_OFFSET == Num(2^15, 0)

\* a >= b on JavaScript numbers (false when either is NaN)
NumGE(a, b) ==
  /\ ~a.nan
  /\ ~b.nan
  /\ \/ a.hi > b.hi
     \/ a.hi = b.hi /\ a.lo >= b.lo

\* a + b on JavaScript numbers
NumAdd(a, b) ==
  IF a.nan \/ b.nan THEN NaN
  ELSE Num(a.hi + b.hi + ((a.lo + b.lo) \div LimbBase), (a.lo + b.lo) % LimbBase)

\* ----------------------------------------------------------- byte buffers
Byte == 0 .. (ByteBase - 1)

\* new Uint8Array(len)
ZeroBuffer(len) == [k \in 1 .. len |-> 0]

\* all buffers of a length
Buffers(len) == [1 .. len -> Byte]

\* TypedArray.prototype.set(source, offset): copies source into target
BufSet(target, source, offset) ==
  [k \in 1 .. Len(target) |->
     IF k > offset /\ k <= offset + Len(source) THEN source[k - offset] ELSE target[k]]

\* TypedArray.prototype.subarray(begin, end): the bytes the view shows
Subarray(buffer, begin, end) == SubSeq(buffer, begin + 1, end)

\* ----------------------------------------------------------- encodeUInt32BE
\* ToInt32 of the number, as the signed high limb and the low limb
ToInt32Hi(value) ==
  LET h == value.hi % LimbBase
  IN IF h >= 2^15 THEN h - LimbBase ELSE h

encodeUInt32BE(value) ==
  LET hs == ToInt32Hi(value)
      \* value >> 24, value >> 16, value >> 8 (arithmetic shifts), value
      s24 == hs \div 256
      s16 == hs
      s8 == hs * 256 + (value.lo \div 256)
      s0 == value.lo
  IN << s24 % 256, s16 % 256, s8 % 256, s0 % 256 >>

\* ------------------------------------------------------------------ parsePath
Digits == {"0", "1", "2", "3", "4", "5", "6", "7", "8", "9"}

DigitVal(c) ==
  CASE c = "0" -> 0 [] c = "1" -> 1 [] c = "2" -> 2 [] c = "3" -> 3 [] c = "4" -> 4
    [] c = "5" -> 5 [] c = "6" -> 6 [] c = "7" -> 7 [] c = "8" -> 8 [] c = "9" -> 9

\* mutant: the part after the leading m is optional, /^[mM](\/[0-9'/]+)?$/
MatchesPathRegex_OptionalTail(path) ==
  /\ Len(path) >= 1
  /\ path[1] \in {"m", "M"}
  /\ Len(path) >= 2 => (Len(path) >= 3 /\ path[2] = "/")
  /\ \A k \in 3 .. Len(path) : path[k] \in Digits \cup {"'", "/"}

\* path.match(/^[mM]\/[0-9'/]+$/)
MatchesPathRegex(path) ==
  /\ Len(path) >= 3
  /\ path[1] \in {"m", "M"}
  /\ path[2] = "/"
  /\ \A k \in 3 .. Len(path) : path[k] \in Digits \cup {"'", "/"}

\* String.prototype.toLowerCase on the characters of the model's alphabet
ToLowerCase(path) ==
  [k \in 1 .. Len(path) |-> IF path[k] = "M" THEN "m" ELSE path[k]]

\* String.prototype.split('/'): the components between the slashes
RECURSIVE SplitFrom(_, _, _)
SplitFrom(s, k, cur) ==
  IF k > Len(s) THEN << cur >>
  ELSE IF s[k] = "/" THEN << cur >> \o SplitFrom(s, k + 1, << >>)
  ELSE SplitFrom(s, k + 1, Append(cur, s[k]))

Split(s) == SplitFrom(s, 1, << >>)

\* parseInt(component): the value of the longest prefix of decimal digits,
\* NaN when the component does not start with a digit
RECURSIVE ParseDigits(_, _, _)
ParseDigits(component, k, acc) ==
  IF k > Len(component) \/ component[k] \notin Digits THEN acc
  ELSE LET l == acc.lo * 10 + DigitVal(component[k])
       IN ParseDigits(component, k + 1, Num(acc.hi * 10 + (l \div LimbBase), l % LimbBase))

parseInt(component) ==
  IF Len(component) = 0 \/ component[1] \notin Digits THEN NaN
  ELSE ParseDigits(component, 1, Num(0, 0))

\* component.endsWith("'")
EndsWithQuote(component) ==
  Len(component) > 0 /\ component[Len(component)] = "'"

\* the callback of .map: the index of one component
ComponentIndex(component) ==
  IF EndsWithQuote(component)
  THEN NumAdd(parseInt(component), HARDENED_OFFSET)
  ELSE parseInt(component)

\* split('/').slice(1)
Components(path) == Tail(Split(ToLowerCase(path)))

\* parsePath: the error thrown ("none" when it returns) and the indices
parsePath(path) ==
  IF ~MatchesPathRegex(path)
  THEN [err |-> "Invalid derivation path format", indices |-> << >>]
  ELSE LET comps == Components(path)
       IN IF \E k \in 1 .. Len(comps) : parseInt(comps[k]).nan
          THEN [err |-> "Invalid index in derivation path", indices |-> << >>]
          ELSE [err |-> "none",
                indices |-> [k \in 1 .. Len(comps) |-> ComponentIndex(comps[k])]]

\* --------------------------------------------------------- scalar arithmetic
\* Number((secp256k1.CURVE.n >> BigInt(8 * (31 - i))) & 0xffn), i from 0
CurveOrderByte(i) == (CurveN \div ByteBase^(PRIVATE_KEY_SIZE - 1 - i)) % ByteBase

RECURSIVE CompareFrom(_, _)
CompareFrom(buffer, i) ==
  IF i >= PRIVATE_KEY_SIZE THEN 0
  ELSE IF buffer[i + 1] > CurveOrderByte(i) THEN 1
  ELSE IF buffer[i + 1] < CurveOrderByte(i) THEN -1
  ELSE CompareFrom(buffer, i + 1)

\* mutant: the bytes are compared least significant first
RECURSIVE CompareDownFrom(_, _)
CompareDownFrom(buffer, i) ==
  IF i < 0 THEN 0
  ELSE IF buffer[i + 1] > CurveOrderByte(i) THEN 1
  ELSE IF buffer[i + 1] < CurveOrderByte(i) THEN -1
  ELSE CompareDownFrom(buffer, i - 1)

compareWithCurveOrder_LeastSignificantFirst(buffer) ==
  CompareDownFrom(buffer, PRIVATE_KEY_SIZE - 1)

compareWithCurveOrder(buffer) == CompareFrom(buffer, 0)

isBufferZero(buffer) == \A k \in 1 .. Len(buffer) : buffer[k] = 0

\* the loop of addPrivateKeys from byte i (0-based) down to byte 0
RECURSIVE AddFrom(_, _, _, _)
AddFrom(target, addition, i, carry) ==
  IF i < 0 THEN [target |-> target, carry |-> carry > 0]
  ELSE LET sum == target[i + 1] + addition[i + 1] + carry
       IN AddFrom([target EXCEPT ![i + 1] = sum % ByteBase], addition, i - 1,
                  sum \div ByteBase)

\* mutant: each byte is added on its own, the carry is dropped
addPrivateKeys_NoCarry(target, addition) ==
  [target |-> [k \in 1 .. Len(target) |-> (target[k] + addition[k]) % ByteBase],
   carry |-> FALSE]

\* addPrivateKeys: the target after the call and the value returned
addPrivateKeys(target, addition) == AddFrom(target, addition, PRIVATE_KEY_SIZE - 1, 0)

\* the loop of subtractFromPrivateKey from byte i (0-based) down to byte 0
RECURSIVE SubtractFrom(_, _, _)
SubtractFrom(privateKey, i, carry) ==
  IF i < 0 THEN privateKey
  ELSE LET diff == privateKey[i + 1] - CurveOrderByte(i) - carry
       IN SubtractFrom([privateKey EXCEPT ![i + 1] = IF diff < 0 THEN diff + ByteBase ELSE diff],
                       i - 1, IF diff < 0 THEN 1 ELSE 0)

\* mutant: the borrow is not carried into the next byte
subtractFromPrivateKey_NoBorrow(privateKey) ==
  [k \in 1 .. Len(privateKey) |->
     LET diff == privateKey[k] - CurveOrderByte(k - 1)
     IN IF diff < 0 THEN diff + ByteBase ELSE diff]

subtractFromPrivateKey(privateKey) == SubtractFrom(privateKey, PRIVATE_KEY_SIZE - 1, 0)

\* ------------------------------------------------------------- library calls
\* the outputs an HMAC-SHA512 call can have (64 bytes in the source)
HmacOutputs == Buffers(PRIVATE_KEY_SIZE + ChainLen)

\* secp256k1.getPublicKey accepts exactly the scalars in 1 .. n-1 and throws
\* on every other key
IsValidPrivateKey(key) ==
  ~isBufferZero(key) /\ compareWithCurveOrder(key) < 0

\* secp256k1.getPublicKey(key, true): the compressed point, one parity byte
\* and the x coordinate; an injective stand-in for the curve multiplication
getPublicKey(key) ==
  << 2 + (key[Len(key)] % 2) >> \o key

\* ------------------------------------------------------- derivePrivateKeyBuffer
VARIABLES seed, path, pc, err, indices, i,
          privateKeyBuffer, hmacOutputBuffer, derivationDataBuffer

derivationVars == << seed, path, pc, err, indices, i,
                     privateKeyBuffer, hmacOutputBuffer, derivationDataBuffer >>

\* the wallet manager, its accounts and what their caller holds
VARIABLES managerSeed, manager, accounts, heldKeyPair, heldSignature, call

walletVars == << managerSeed, manager, accounts, heldKeyPair, heldSignature, call >>

\* a signing key object on its own
VARIABLES signingKey, keyCall

keyVars == << signingKey, keyCall >>

\* one transfer or quote call of an account and the answers of the node
VARIABLES node, transfer

transferVars == << node, transfer >>

\* an account of the HDKey-backed class and the last call made on it
VARIABLES hdAccount, hdCall

hdVars == << hdAccount, hdCall >>

\* the byte arithmetic of the derivation, called on its own
VARIABLES arith

arithVars == << arith >>

vars == << derivationVars, walletVars, keyVars, transferVars, hdVars, arithVars >>

\* no signature: what the caller holds before any sign() returned
NoSignature == [signer |-> << >>, message |-> "none"]

\* no call was made yet
NoCall == [op |-> "none", account |-> 0, err |-> "none", ok |-> FALSE]

\* an account slot no constructor ran for
NoAccount ==
  [status |-> "absent", path |-> << >>,
   privateKeyBuffer |-> << >>, hmacOutputBuffer |-> << >>,
   derivationDataBuffer |-> << >>,
   fieldsNull |-> FALSE,
   derived |-> [key |-> << >>, chainCode |-> << >>]]

\* no signing key object
NoSigningKey ==
  [variant |-> "none", state |-> "none", privateKeyBuffer |-> << >>,
   fieldUndefined |-> FALSE, held |-> FALSE]

NoKeyCall == [op |-> "none", err |-> "none", len |-> 0, ok |-> FALSE]

\* the derivation function is exercised without a wallet around it
WalletIdle ==
  /\ managerSeed = << >>
  /\ manager = [seedNull |-> TRUE, accounts |-> {}, tronWebNull |-> TRUE]
  /\ accounts = << >>
  /\ heldKeyPair = 0
  /\ heldSignature = NoSignature
  /\ call = NoCall

KeyIdle ==
  /\ signingKey = NoSigningKey
  /\ keyCall = NoKeyCall

\* no node was asked and no transfer was started
NoNode == [raw_data_hex |-> 0]

NoTransfer == [op |-> "none", pc |-> "idle"]

TransferIdle ==
  /\ node = NoNode
  /\ transfer = NoTransfer

NoHDAccount == [status |-> "absent"]

NoHDCall == [op |-> "none", err |-> "none"]

HDKeyIdle ==
  /\ hdAccount = NoHDAccount
  /\ hdCall = NoHDCall

ArithIdle == arith = [op |-> "idle"]

DerivationDataLen == 1 + PRIVATE_KEY_SIZE + 4

\* const chainCode = hmacOutputBuffer.subarray(32): a view, not a copy
chainCode(hmacOut) == Subarray(hmacOut, PRIVATE_KEY_SIZE, Len(hmacOut))

\* lines 311-321: the derivation data of one index
DerivationData(privateKey, index) ==
  LET cleared == ZeroBuffer(DerivationDataLen)
      body == IF NumGE(index, HARDENED_OFFSET)
              THEN BufSet([cleared EXCEPT ![1] = 0], privateKey, 1)
              ELSE BufSet(cleared, getPublicKey(privateKey), 0)
  IN BufSet(body, encodeUInt32BE(index), 1 + PRIVATE_KEY_SIZE)

\* lines 324-343: the rest of the loop body, given the bytes the HMAC returned;
\* the private key buffer and the HMAC output buffer when the iteration ends
ChildKey(privateKey, hmacOut, I) ==
  LET h == BufSet(hmacOut, I, 0)
      IL == Subarray(h, 0, PRIVATE_KEY_SIZE)
      IR == Subarray(h, PRIVATE_KEY_SIZE, Len(h))
      added == addPrivateKeys(privateKey, IL)
      reduced == IF added.carry \/ compareWithCurveOrder(added.target) >= 0
                 THEN subtractFromPrivateKey(added.target)
                 ELSE added.target
  IN IF compareWithCurveOrder(IL) >= 0
     THEN [privateKeyBuffer |-> privateKey, hmacOutputBuffer |-> h]
     ELSE IF isBufferZero(reduced)
     THEN [privateKeyBuffer |-> reduced, hmacOutputBuffer |-> h]
     ELSE [privateKeyBuffer |-> reduced,
           \* chainCode.set(IR): chainCode is the view of h from byte 32
           hmacOutputBuffer |-> BufSet(h, IR, PRIVATE_KEY_SIZE)]

Seeds == {"seedA", "seedB"}

\* "m"
PathM == << "m" >>
\* "m/0"
PathNormal == << "m", "/", "0" >>
\* "m/0'/1"
PathHardenedNormal == << "m", "/", "0", "'", "/", "1" >>
\* "m/2147483647'/0"
PathMaxHardened ==
  << "m", "/", "2", "1", "4", "7", "4", "8", "3", "6", "4", "7", "'", "/", "0" >>
\* "m/2147483648"
PathBigNormal == << "m", "/", "2", "1", "4", "7", "4", "8", "3", "6", "4", "8" >>
\* "m/2147483648'"
PathBigHardened == << "m", "/", "2", "1", "4", "7", "4", "8", "3", "6", "4", "8", "'" >>
\* "m/0''"
PathTwoMarks == << "m", "/", "0", "'", "'" >>
\* "m//"
PathEmptySegment == << "m", "/", "/" >>
\* "m/x"
PathLetters == << "m", "/", "x" >>
\* "0/0"
PathNoM == << "0", "/", "0" >>

DerivePaths ==
  { PathM, PathNormal, PathHardenedNormal, PathMaxHardened, PathBigNormal,
    PathBigHardened, PathTwoMarks, PathEmptySegment, PathLetters, PathNoM }

\* the buffers as the account constructor allocates them, before the call
Init ==
  /\ seed \in Seeds
  /\ path \in DerivePaths
  /\ pc = "new"
  /\ err = "none"
  /\ indices = << >>
  /\ i = 0
  /\ privateKeyBuffer = ZeroBuffer(PRIVATE_KEY_SIZE)
  /\ hmacOutputBuffer = ZeroBuffer(PRIVATE_KEY_SIZE + ChainLen)
  /\ derivationDataBuffer = ZeroBuffer(DerivationDataLen)
  /\ WalletIdle
  /\ KeyIdle
  /\ TransferIdle
  /\ HDKeyIdle
  /\ ArithIdle

\* lines 300-307: master key material, then the path is parsed
DeriveBegin ==
  /\ pc = "new"
  /\ \E I \in HmacOutputs :
       LET h == BufSet(hmacOutputBuffer, I, 0)
           parsed == parsePath(path)
       IN /\ hmacOutputBuffer' = h
          /\ privateKeyBuffer' =
               BufSet(privateKeyBuffer, Subarray(h, 0, PRIVATE_KEY_SIZE), 0)
          /\ err' = parsed.err
          /\ indices' = parsed.indices
          /\ pc' = IF parsed.err = "none" THEN "loop" ELSE "thrown"
  /\ UNCHANGED << seed, path, i, derivationDataBuffer, walletVars, keyVars,
                  transferVars, hdVars, arithVars >>

\* lines 310-344: one iteration of the loop over the indices
DeriveStep ==
  /\ pc = "loop"
  /\ i < Len(indices)
  /\ LET index == indices[i + 1]
     IN IF ~NumGE(index, HARDENED_OFFSET) /\ ~IsValidPrivateKey(privateKeyBuffer)
        THEN \* getPublicKey throws after the buffer was cleared (line 311)
             /\ derivationDataBuffer' = ZeroBuffer(DerivationDataLen)
             /\ pc' = "thrown"
             /\ err' = "invalid private key"
             /\ UNCHANGED << i, privateKeyBuffer, hmacOutputBuffer >>
        ELSE /\ derivationDataBuffer' = DerivationData(privateKeyBuffer, index)
             /\ \E I \in HmacOutputs :
                  LET child == ChildKey(privateKeyBuffer, hmacOutputBuffer, I)
                  IN /\ privateKeyBuffer' = child.privateKeyBuffer
                     /\ hmacOutputBuffer' = child.hmacOutputBuffer
             /\ i' = i + 1
             /\ UNCHANGED << pc, err >>
  /\ UNCHANGED << seed, path, indices, walletVars, keyVars,
                  transferVars, hdVars, arithVars >>

\* line 345: the loop is over and the function returns
DeriveReturn ==
  /\ pc = "loop"
  /\ i = Len(indices)
  /\ pc' = "done"
  /\ UNCHANGED << seed, path, err, indices, i,
                  privateKeyBuffer, hmacOutputBuffer, derivationDataBuffer,
                  walletVars, keyVars,
                  transferVars, hdVars, arithVars >>

Next == DeriveBegin \/ DeriveStep \/ DeriveReturn

Spec == Init /\ [][Next]_vars

\* ------------------------------------------------- the path parser on its own
\* the alphabet of the enumerated path strings: m, M, /, a digit, ', another
PathAlphabet == {"m", "M", "/", "7", "'", "x"}

PathStrings == UNION {[1 .. n -> PathAlphabet] : n \in 0 .. MaxPathLen}

InitParse ==
  /\ seed \in Seeds
  /\ path \in PathStrings \cup DerivePaths
  /\ pc = "new"
  /\ err = "none"
  /\ indices = << >>
  /\ i = 0
  /\ privateKeyBuffer = ZeroBuffer(PRIVATE_KEY_SIZE)
  /\ hmacOutputBuffer = ZeroBuffer(PRIVATE_KEY_SIZE + ChainLen)
  /\ derivationDataBuffer = ZeroBuffer(DerivationDataLen)
  /\ WalletIdle
  /\ KeyIdle
  /\ TransferIdle
  /\ HDKeyIdle
  /\ ArithIdle

\* line 307 alone: const indices = parsePath(path)
ParsePath ==
  /\ pc = "new"
  /\ err' = parsePath(path).err
  /\ indices' = parsePath(path).indices
  /\ pc' = IF parsePath(path).err = "none" THEN "parsed" ELSE "thrown"
  /\ UNCHANGED << seed, path, i, privateKeyBuffer, hmacOutputBuffer,
                  derivationDataBuffer, walletVars, keyVars,
                  transferVars, hdVars, arithVars >>

NextParse == ParsePath

SpecParse == InitParse /\ [][NextParse]_vars

\* ------------------------------------------------- the wallet and its accounts
\* accounts one manager hands out while the model runs
MaxAccounts == 2

\* the 'Bitcoin seed' key of the master HMAC, scaled
MASTER_SECRET == << 1, 0, 1 >>

RECURSIVE WeightedSum(_)
WeightedSum(bytes) ==
  IF Len(bytes) = 0 THEN 0
  ELSE WeightedSum(SubSeq(bytes, 1, Len(bytes) - 1)) + Len(bytes) * bytes[Len(bytes)]

\* the big-endian bytes of a number
ToBytes(value, len) ==
  [k \in 1 .. len |-> (value \div ByteBase^(len - k)) % ByteBase]

\* hmac(sha512, key, data): a function of the key and of the data, and of
\* nothing else; a fixed mixing function stands for HMAC-SHA512
Hmac(key, data) ==
  LET h == 3 * WeightedSum(key) + 5 * WeightedSum(data) + Len(data)
  IN ToBytes((7 * h + (h \div 3)) % ByteBase^(PRIVATE_KEY_SIZE + ChainLen),
             PRIVATE_KEY_SIZE + ChainLen)

\* the bytes of a buffer written out as a tuple: the same value, evaluated
\* (TLC keeps [k \in S |-> e] unevaluated and must not take EXCEPT of it twice)
RECURSIVE BytesFrom(_, _)
BytesFrom(buffer, k) ==
  IF k > Len(buffer) THEN << >> ELSE << buffer[k] >> \o BytesFrom(buffer, k + 1)

Bytes(buffer) == BytesFrom(buffer, 1)

\* lines 310-344 for the indices from the k-th on, every HMAC computed
RECURSIVE DeriveFrom(_, _, _, _, _)
DeriveFrom(idx, k, privateKey, hmacOut, derivationData) ==
  IF k > Len(idx)
  THEN [err |-> "none", privateKeyBuffer |-> Bytes(privateKey),
        hmacOutputBuffer |-> Bytes(hmacOut),
        derivationDataBuffer |-> Bytes(derivationData)]
  ELSE IF ~NumGE(idx[k], HARDENED_OFFSET) /\ ~IsValidPrivateKey(privateKey)
  THEN [err |-> "invalid private key", privateKeyBuffer |-> Bytes(privateKey),
        hmacOutputBuffer |-> Bytes(hmacOut),
        derivationDataBuffer |-> ZeroBuffer(DerivationDataLen)]
  ELSE LET data == Bytes(DerivationData(privateKey, idx[k]))
           child == ChildKey(privateKey, hmacOut, Hmac(chainCode(hmacOut), data))
       IN DeriveFrom(idx, k + 1, Bytes(child.privateKeyBuffer),
                     Bytes(child.hmacOutputBuffer), data)

\* derivePrivateKeyBuffer(seed, privateKeyBuffer, hmacOutputBuffer,
\* derivationDataBuffer, path): the error thrown ("none" when it returns) and
\* the three buffers as the call leaves them
derivePrivateKeyBuffer(seedBuffer, privateKey, hmacOut, derivationData, fullPath) ==
  LET h == Bytes(BufSet(hmacOut, Hmac(MASTER_SECRET, seedBuffer), 0))
      master == Bytes(BufSet(privateKey, Subarray(h, 0, PRIVATE_KEY_SIZE), 0))
      parsed == parsePath(fullPath)
  IN IF parsed.err # "none"
     THEN [err |-> parsed.err, privateKeyBuffer |-> master,
           hmacOutputBuffer |-> h, derivationDataBuffer |-> Bytes(derivationData)]
     ELSE DeriveFrom(parsed.indices, 1, master, h, derivationData)

\* "m/44'/195'"
BIP_44_TRON_DERIVATION_PATH_PREFIX ==
  << "m", "/", "4", "4", "'", "/", "1", "9", "5", "'" >>

\* `${BIP_44_TRON_DERIVATION_PATH_PREFIX}/${path}`
FullPath(accountPath) == BIP_44_TRON_DERIVATION_PATH_PREFIX \o << "/" >> \o accountPath

\* the seeds a manager is built with
WalletSeeds == { << 1, 0, 0 >>, << 1, 0, 1 >> }

\* "0'/0/0", "0'/0/1" and a path the parser rejects
AccountPath0 == << "0", "'", "/", "0", "/", "0" >>
AccountPath1 == << "0", "'", "/", "0", "/", "1" >>
AccountPathBad == << "x" >>

AccountPaths == { AccountPath0, AccountPath1, AccountPathBad }

\* the indices getAccount is called with
AccountIndexes == { 0, 1 }

\* `0'/0/${index}`
IndexPath(index) ==
  << "0", "'", "/", "0", "/", CHOOSE c \in Digits : DigitVal(c) = index >>

Messages == { "Dummy message to sign.", "Another message." }

Slots == 1 .. MaxAccounts

\* sodium_memzero(buffer) on a Uint8Array; it throws on null and undefined
sodium_memzero(buffer) == ZeroBuffer(Len(buffer))

\* new WalletAccountTron(seed, path, config): the error thrown ("none" when
\* the constructor returns) and the object with the buffers it allocated
WalletAccountTron(seedBuffer, accountPath) ==
  LET key0 == ZeroBuffer(PRIVATE_KEY_SIZE)
      hmac0 == ZeroBuffer(PRIVATE_KEY_SIZE + ChainLen)
      data0 == ZeroBuffer(DerivationDataLen)
      d == derivePrivateKeyBuffer(seedBuffer, key0, hmac0, data0, FullPath(accountPath))
      object == [NoAccount EXCEPT !.path = accountPath]
  IN [err |-> d.err,
      account |-> [object EXCEPT
                     !.status = IF d.err = "none" THEN "constructed" ELSE "threw",
                     !.privateKeyBuffer = d.privateKeyBuffer,
                     !.hmacOutputBuffer = d.hmacOutputBuffer,
                     !.derivationDataBuffer = d.derivationDataBuffer,
                     \* what the constructor left in the key buffer and in
                     \* the chain code, kept for the claims
                     !.derived = IF d.err = "none"
                                 THEN [key |-> d.privateKeyBuffer,
                                       chainCode |-> chainCode(d.hmacOutputBuffer)]
                                 ELSE NoAccount.derived]]

\* the slot of the next account object
NextSlot == 1 + Cardinality({a \in Slots : accounts[a].status # "absent"})

\* a derivation that writes to its seed
SeedAfterDerive_Overwritten(seedBuffer) ==
  [seedBuffer EXCEPT ![Len(seedBuffer)] = (@ + 1) % ByteBase]

\* derivePrivateKeyBuffer reads the seed it is given and writes the three
\* buffers only
SeedAfterDerive(seedBuffer) == seedBuffer

\* wallet-manager-tron.js lines 72-78, the body of getAccountByPath: on a
\* disposed manager this._tronWeb.fullNode throws before the constructor runs
AccountByPath(accountPath, op) ==
  /\ NextSlot \in Slots
  /\ IF manager.tronWebNull
     THEN /\ call' = [op |-> op, account |-> 0, err |-> "TypeError", ok |-> FALSE]
          /\ UNCHANGED << accounts, manager, managerSeed >>
     ELSE LET made == WalletAccountTron(managerSeed, accountPath)
          IN /\ accounts' = [accounts EXCEPT ![NextSlot] = made.account]
             /\ manager' = IF made.err = "none"
                            THEN [manager EXCEPT !.accounts = @ \cup {NextSlot}]
                            ELSE manager
             /\ managerSeed' = SeedAfterDerive(managerSeed)
             /\ call' = [op |-> op, account |-> NextSlot, err |-> made.err, ok |-> FALSE]
  /\ UNCHANGED << heldKeyPair, heldSignature, derivationVars, keyVars,
                  transferVars, hdVars, arithVars >>

GetAccountByPath == \E p \in AccountPaths : AccountByPath(p, "getAccountByPath")

\* lines 57-61: getAccountByPath(`0'/0/${index}`), then a second add
GetAccount == \E index \in AccountIndexes : AccountByPath(IndexPath(index), "getAccount")

\* a dispose that drops the fields without erasing the key
DisposedAccount_Unzeroed(account) ==
  [account EXCEPT !.hmacOutputBuffer = sodium_memzero(@),
                  !.derivationDataBuffer = sodium_memzero(@),
                  !.fieldsNull = TRUE]

\* a dispose that erases the private key only
DisposedAccount_KeyOnly(account) ==
  [account EXCEPT !.privateKeyBuffer = sodium_memzero(@),
                  !.fieldsNull = TRUE]

\* wallet-account-tron.js lines 411-419 on an account whose fields are set:
\* the three buffers are zeroed, then the fields are set to null
DisposedAccount(account) ==
  [account EXCEPT !.privateKeyBuffer = sodium_memzero(@),
                  !.hmacOutputBuffer = sodium_memzero(@),
                  !.derivationDataBuffer = sodium_memzero(@),
                  !.fieldsNull = TRUE]

\* a dispose on buffers that all accounts of the manager share
AccountDispose_Shared(a) ==
  /\ accounts[a].status = "constructed"
  /\ ~accounts[a].fieldsNull
  /\ call' = [op |-> "dispose", account |-> a, err |-> "none", ok |-> FALSE]
  /\ accounts' = [b \in Slots |->
                    IF b = a THEN DisposedAccount(accounts[b])
                    ELSE [accounts[b] EXCEPT
                            !.privateKeyBuffer = sodium_memzero(@)]]
  /\ UNCHANGED << managerSeed, manager, heldKeyPair, heldSignature, derivationVars, keyVars,
                  transferVars, hdVars, arithVars >>

\* account.dispose(): on an account whose fields are null already, line 411
\* is sodium_memzero(null), which throws
AccountDispose(a) ==
  /\ accounts[a].status = "constructed"
  /\ IF accounts[a].fieldsNull
     THEN /\ call' = [op |-> "dispose", account |-> a, err |-> "TypeError", ok |-> FALSE]
          /\ UNCHANGED accounts
     ELSE /\ call' = [op |-> "dispose", account |-> a, err |-> "none", ok |-> FALSE]
          /\ accounts' = [accounts EXCEPT ![a] = DisposedAccount(@)]
  /\ UNCHANGED << managerSeed, manager, heldKeyPair, heldSignature, derivationVars, keyVars,
                  transferVars, hdVars, arithVars >>

\* secp256k1.sign(hash, key): the signature stands for the pair it commits to
Signature(key, message) == [signer |-> key, message |-> message]

\* a sign that goes on with whatever the key buffer holds
SignFailure_IgnoresDispose(account) ==
  IF ~account.fieldsNull /\ ~IsValidPrivateKey(account.privateKeyBuffer)
  THEN "invalid private key"
  ELSE "none"

\* the error account.sign ends with, "none" when it returns a signature:
\* this._signingKey is null after dispose(); the signing key holds the
\* account's key buffer itself (signing-key.js line 14) and the library
\* rejects keys outside 1 .. n-1
SignFailure(account) ==
  IF account.fieldsNull THEN "TypeError"
  ELSE IF ~IsValidPrivateKey(account.privateKeyBuffer) THEN "invalid private key"
  ELSE "none"

\* account.sign(message), lines 155-171; call.ok: a signature was returned
Sign(a, message) ==
  /\ accounts[a].status = "constructed"
  /\ LET failure == SignFailure(accounts[a])
     IN /\ call' = [op |-> "sign", account |-> a, err |-> failure,
                    ok |-> failure = "none"]
        /\ heldSignature' = IF failure = "none"
                             THEN Signature(accounts[a].privateKeyBuffer, message)
                             ELSE heldSignature
  /\ UNCHANGED << managerSeed, manager, accounts, heldKeyPair, derivationVars, keyVars,
                  transferVars, hdVars, arithVars >>

\* a string that is no signature
MalformedSignature == [signer |-> << >>, message |-> "malformed"]

\* tronWeb.trx.verifyMessageV2(message, signature) recovers the signer's
\* address and returns it; it throws on a signature it cannot parse
VerifyMessageV2Throws(message, signature) == signature = MalformedSignature

\* account.verify(message, signature), lines 180-187: true unless the call
\* in the try block throws; this._tronWeb is null after dispose()
verify(account, message, signature) ==
  ~account.fieldsNull /\ ~VerifyMessageV2Throws(message, signature)

Verify(a, message, signature) ==
  /\ accounts[a].status = "constructed"
  /\ signature # NoSignature
  /\ call' = [op |-> "verify", account |-> a, err |-> "none",
              ok |-> verify(accounts[a], message, signature)]
  /\ UNCHANGED << managerSeed, manager, accounts, heldKeyPair, heldSignature,
                  derivationVars, keyVars,
                  transferVars, hdVars, arithVars >>

\* const keyPair = account.keyPair, lines 128-133: privateKey is
\* this._privateKeyBuffer; the getter throws on the null signing key of a
\* disposed account.  heldKeyPair is the account whose buffer the caller's
\* keyPair.privateKey is (0: the caller holds none).
KeyPair(a) ==
  /\ accounts[a].status = "constructed"
  /\ IF accounts[a].fieldsNull
     THEN /\ call' = [op |-> "keyPair", account |-> a, err |-> "TypeError", ok |-> FALSE]
          /\ UNCHANGED heldKeyPair
     ELSE /\ call' = [op |-> "keyPair", account |-> a, err |-> "none", ok |-> FALSE]
          /\ heldKeyPair' = a
  /\ UNCHANGED << managerSeed, manager, accounts, heldSignature, derivationVars, keyVars,
                  transferVars, hdVars, arithVars >>

\* privateKey[31] ^= 1 on a buffer
FlipLastByte(buffer) ==
  [buffer EXCEPT ![Len(buffer)] = (@ + 1) % ByteBase]

\* the caller writes one byte of the privateKey a keyPair getter returned
WriteKeyPair ==
  /\ heldKeyPair \in Slots
  /\ accounts' = [accounts EXCEPT ![heldKeyPair].privateKeyBuffer = FlipLastByte(@)]
  /\ call' = [op |-> "write", account |-> heldKeyPair, err |-> "none", ok |-> FALSE]
  /\ UNCHANGED << managerSeed, manager, heldKeyPair, heldSignature, derivationVars, keyVars,
                  transferVars, hdVars, arithVars >>

\* manager.getFeeRates(), lines 85-110: this._tronWeb.fullNode throws on the
\* null _tronWeb of a disposed manager; the provider host is always set
GetFeeRates ==
  /\ call' = [op |-> "getFeeRates", account |-> 0,
              err |-> IF manager.tronWebNull THEN "TypeError" ELSE "none",
              ok |-> FALSE]
  /\ UNCHANGED << managerSeed, manager, accounts, heldKeyPair, heldSignature,
                  derivationVars, keyVars, transferVars, hdVars, arithVars >>

\* a loop that stops after the first account of the set
DisposeFrom_FirstOnly(a, members, accts) ==
  IF members = {} THEN [err |-> "none", accounts |-> accts]
  ELSE LET first == CHOOSE m \in members : \A n \in members : m <= n
       IN IF accts[first].fieldsNull THEN [err |-> "TypeError", accounts |-> accts]
          ELSE [err |-> "none", accounts |-> [accts EXCEPT ![first] = DisposedAccount(@)]]

\* wallet-manager-tron.js lines 116-118: the accounts of the set are disposed
\* in insertion order until one of the calls throws
RECURSIVE DisposeFrom(_, _, _)
DisposeFrom(a, members, accts) ==
  IF a > MaxAccounts THEN [err |-> "none", accounts |-> accts]
  ELSE IF a \notin members THEN DisposeFrom(a + 1, members, accts)
  ELSE IF accts[a].fieldsNull THEN [err |-> "TypeError", accounts |-> accts]
  ELSE DisposeFrom(a + 1, members, [accts EXCEPT ![a] = DisposedAccount(@)])

\* manager.dispose(), lines 115-122
ManagerDispose ==
  LET looped == DisposeFrom(1, manager.accounts, accounts)
  IN /\ accounts' = looped.accounts
     /\ IF looped.err # "none"
        THEN /\ call' = [op |-> "managerDispose", account |-> 0,
                         err |-> looped.err, ok |-> FALSE]
             /\ UNCHANGED << manager, managerSeed >>
        ELSE IF manager.seedNull
        THEN \* sodium_memzero(null) at line 119, after the set was cleared
             /\ call' = [op |-> "managerDispose", account |-> 0,
                         err |-> "TypeError", ok |-> FALSE]
             /\ manager' = [manager EXCEPT !.accounts = {}]
             /\ UNCHANGED managerSeed
        ELSE /\ call' = [op |-> "managerDispose", account |-> 0,
                         err |-> "none", ok |-> FALSE]
             /\ managerSeed' = sodium_memzero(managerSeed)
             /\ manager' = [seedNull |-> TRUE, accounts |-> {}, tronWebNull |-> TRUE]
     /\ UNCHANGED << heldKeyPair, heldSignature, derivationVars, keyVars,
                  transferVars, hdVars, arithVars >>

\* the derivation variables while the wallet is exercised
DerivationIdle ==
  /\ seed = "seedA"
  /\ path = << >>
  /\ pc = "idle"
  /\ err = "none"
  /\ indices = << >>
  /\ i = 0
  /\ privateKeyBuffer = << >>
  /\ hmacOutputBuffer = << >>
  /\ derivationDataBuffer = << >>

\* a manager right after new WalletManagerTron(seed, config)
InitWallet ==
  /\ managerSeed \in WalletSeeds
  /\ manager = [seedNull |-> FALSE, accounts |-> {}, tronWebNull |-> FALSE]
  /\ accounts = [a \in Slots |-> NoAccount]
  /\ heldKeyPair = 0
  /\ heldSignature = NoSignature
  /\ call = NoCall
  /\ DerivationIdle
  /\ KeyIdle
  /\ TransferIdle
  /\ HDKeyIdle
  /\ ArithIdle

NextWallet ==
  \/ GetAccountByPath
  \/ GetAccount
  \/ \E a \in Slots : AccountDispose(a)
  \/ \E a \in Slots, m \in Messages : Sign(a, m)
  \/ \E a \in Slots, m \in Messages, s \in {heldSignature, MalformedSignature} :
       Verify(a, m, s)
  \/ GetFeeRates
  \/ ManagerDispose

SpecWallet == InitWallet /\ [][NextWallet]_vars

\* the same wallet with a caller that also reads keyPair and writes to the
\* bytes it was given
NextKeyPair ==
  \/ NextWallet
  \/ \E a \in Slots : KeyPair(a)
  \/ WriteKeyPair

SpecKeyPair == InitWallet /\ [][NextKeyPair]_vars

\* the wallet with a caller that keeps the keyPair it read
NextHeld ==
  \/ NextWallet
  \/ \E a \in Slots : KeyPair(a)

SpecHeld == InitWallet /\ [][NextHeld]_vars

\* ------------------------------------------------------- the signing keys
\* bytes of a digest (32 in the source), scaled
DIGEST_SIZE == 2

\* memory-safe/signing-key.js, and the class that extends the ethers
\* SigningKey in wallet-manager-tron.d.ts
KeyVariants == { "memory-safe", "ethers" }

\* the buffers a caller may pass to the constructor
KeyInputs == UNION { Buffers(n) : n \in 0 .. (PRIVATE_KEY_SIZE + 1) }

\* the lengths of the digests a caller may pass to sign
DigestLengths == 0 .. (DIGEST_SIZE + 1)

\* a constructor that takes any buffer long enough
KeyLengthAccepted_AtLeast(len) == len >= PRIVATE_KEY_SIZE

\* privateKeyBuffer.length !== 32 throws
KeyLengthAccepted(len) == len = PRIVATE_KEY_SIZE

\* the message of the error each constructor throws
KeyLengthError(variant) ==
  IF variant = "memory-safe"
  THEN "privateKeyBuffer must be a 32-byte Uint8Array."
  ELSE "privateKeyBuffer must be 32 bytes"

\* new MemorySafeSigningKey(privateKeyBuffer): the object keeps the buffer
\* it was given, not a copy
NewSigningKey(variant, buffer) ==
  /\ signingKey.state = "none"
  /\ IF KeyLengthAccepted(Len(buffer))
     THEN /\ signingKey' = [variant |-> variant, state |-> "live",
                            privateKeyBuffer |-> buffer,
                            fieldUndefined |-> FALSE, held |-> FALSE]
          /\ keyCall' = [op |-> "new", err |-> "none", len |-> Len(buffer), ok |-> TRUE]
     ELSE /\ keyCall' = [op |-> "new", err |-> KeyLengthError(variant),
                         len |-> Len(buffer), ok |-> FALSE]
          /\ UNCHANGED signingKey
  /\ UNCHANGED << derivationVars, walletVars,
                  transferVars, hdVars, arithVars >>

\* the error sign(digest) ends with, "none" when it returns a signature:
\* only signing-key.js tests the digest's length (line 30); secp256k1.sign
\* takes a digest of any length and throws on a key that is undefined or
\* outside 1 .. n-1
KeySignFailure(key, len) ==
  IF key.variant = "memory-safe" /\ len # DIGEST_SIZE
  THEN "Digest must be a 32-byte Uint8Array."
  ELSE IF key.fieldUndefined \/ ~IsValidPrivateKey(key.privateKeyBuffer)
  THEN "invalid private key"
  ELSE "none"

\* signingKey.sign(digest)
KeySign(len) ==
  /\ signingKey.state = "live"
  /\ keyCall' = [op |-> "sign", err |-> KeySignFailure(signingKey, len), len |-> len,
                 ok |-> KeySignFailure(signingKey, len) = "none"]
  /\ UNCHANGED << signingKey, derivationVars, walletVars,
                  transferVars, hdVars, arithVars >>

\* signingKey.dispose(), signing-key.js lines 37-41: sodium_memzero throws
\* on the undefined field of a disposed key
KeyDispose ==
  /\ signingKey.state = "live"
  /\ signingKey.variant = "memory-safe"
  /\ IF signingKey.fieldUndefined
     THEN /\ keyCall' = [op |-> "dispose", err |-> "TypeError", len |-> 0, ok |-> FALSE]
          /\ UNCHANGED signingKey
     ELSE /\ keyCall' = [op |-> "dispose", err |-> "none", len |-> 0, ok |-> TRUE]
          /\ signingKey' = [signingKey EXCEPT !.privateKeyBuffer = sodium_memzero(@),
                                              !.fieldUndefined = TRUE]
  /\ UNCHANGED << derivationVars, walletVars,
                  transferVars, hdVars, arithVars >>

\* const bytes = signingKey.privateKey, lines 25-27: the field itself
KeyPrivateKey ==
  /\ signingKey.state = "live"
  /\ signingKey.variant = "memory-safe"
  /\ signingKey' = [signingKey EXCEPT !.held = @ \/ ~signingKey.fieldUndefined]
  /\ keyCall' = [op |-> "privateKey", err |-> "none", len |-> 0,
                 ok |-> ~signingKey.fieldUndefined]
  /\ UNCHANGED << derivationVars, walletVars,
                  transferVars, hdVars, arithVars >>

\* the caller writes one byte of the bytes the privateKey getter returned
KeyWrite ==
  /\ signingKey.held
  /\ signingKey' = [signingKey EXCEPT !.privateKeyBuffer = FlipLastByte(@)]
  /\ keyCall' = [op |-> "write", err |-> "none", len |-> 0, ok |-> TRUE]
  /\ UNCHANGED << derivationVars, walletVars,
                  transferVars, hdVars, arithVars >>

InitKey ==
  /\ KeyIdle
  /\ DerivationIdle
  /\ WalletIdle
  /\ TransferIdle
  /\ HDKeyIdle
  /\ ArithIdle

NextKey ==
  \/ \E variant \in KeyVariants, buffer \in KeyInputs : NewSigningKey(variant, buffer)
  \/ \E len \in DigestLengths : KeySign(len)
  \/ KeyDispose
  \/ KeyPrivateKey
  \/ KeyWrite

SpecKey == InitKey /\ [][NextKey]_vars

\* ------------------------------------------------- fees, quotes and transfers
\* an absent field of an answer or of the configuration, and a present one
Undefined == << >>

Some(value) == << value >>

\* (x || 0)
OrZero(x) == IF x = Undefined THEN 0 ELSE x[1]

Max(a, b) == IF a >= b THEN a ELSE b

BANDWIDTH_PRICE == 1000

\* the lengths of raw_data_hex: the hex of whole bytes, 64 as in the tests
RawDataHexLengths == {0, 2, 64}

\* what a field of getAccountResources can hold
ResourceValues == {Undefined, Some(0), Some(64)}

EnergyValues == {Undefined, Some(100)}

AccountResources ==
  [freeNetLimit : ResourceValues, freeNetUsed : ResourceValues,
   NetLimit : ResourceValues, NetUsed : {Undefined, Some(64)},
   EnergyLimit : EnergyValues, EnergyUsed : {Undefined}]

calculateBandwidthCost_MissingOnly(rawDataHexLength, resources) ==
  LET available == (OrZero(resources.freeNetLimit) - OrZero(resources.freeNetUsed))
                   + (OrZero(resources.NetLimit) - OrZero(resources.NetUsed))
  IN Max(0, rawDataHexLength - available) * BANDWIDTH_PRICE

\* wallet-account-tron.js lines 450-465
calculateBandwidthCost(rawDataHexLength, resources) ==
  LET txSizeBytes == rawDataHexLength \div 2
      requiredBandwidth == txSizeBytes * 2
      freeBandwidthLeft == OrZero(resources.freeNetLimit) - OrZero(resources.freeNetUsed)
      frozenBandwidthLeft == OrZero(resources.NetLimit) - OrZero(resources.NetUsed)
      totalAvailableBandwidth == freeBandwidthLeft + frozenBandwidthLeft
      missingBandwidth == Max(0, requiredBandwidth - totalAvailableBandwidth)
  IN IF missingBandwidth = 0 THEN 0 ELSE requiredBandwidth * BANDWIDTH_PRICE

\* wallet-account-tron.js lines 668-688, the read-only account
getBandwidthCost(rawDataHexLength, resources) ==
  LET freeBandwidthLeft == OrZero(resources.freeNetLimit) - OrZero(resources.freeNetUsed)
      frozenBandwidthLeft == OrZero(resources.NetLimit) - OrZero(resources.NetUsed)
      totalAvailableBandwidth == freeBandwidthLeft + frozenBandwidthLeft
      missingBandwidth == rawDataHexLength - totalAvailableBandwidth
  IN IF missingBandwidth <= 0 THEN 0 ELSE rawDataHexLength * BANDWIDTH_PRICE

\* lines 345-389: the fee of a token transfer from the simulation's answers
quoteTransfer(answers) ==
  LET energy_required == answers.energy_used
      energyPrice == answers.getEnergyFee
      availableEnergy == OrZero(answers.resources.EnergyLimit)
                         - OrZero(answers.resources.EnergyUsed)
      energyCostInSun == IF availableEnergy < OrZero(energy_required)
                         THEN OrZero(energy_required) * energyPrice
                         ELSE 0
      bandwidthCostInSun ==
        calculateBandwidthCost(answers.raw_data_hex, answers.resources)
  IN IF energy_required = Undefined
     THEN [err |-> "Could not estimate energy. The transaction may fail.", fee |-> 0]
     ELSE [err |-> "none", fee |-> energyCostInSun + bandwidthCostInSun]

\* config.transferMaxFee: absent, or a limit in sun
TransferMaxFees == {Undefined, Some(0), Some(44000), Some(200000)}

\* what sendRawTransaction answers
SendResults == {"result", "code", "empty"}

Nodes ==
  [raw_data_hex : RawDataHexLengths, energy_used : EnergyValues,
   getEnergyFee : {420}, resources : AccountResources, sendResult : SendResults]

ExceedsMaxFee_Strict(fee, transferMaxFee) ==
  transferMaxFee # Undefined /\ fee > transferMaxFee[1]

\* line 306: transferMaxFee != undefined && fee >= transferMaxFee
ExceedsMaxFee(fee, transferMaxFee) ==
  transferMaxFee # Undefined /\ fee >= transferMaxFee[1]

InitTransfer ==
  /\ node \in Nodes
  /\ transfer \in [op : {"none"}, pc : {"new"}, transferMaxFee : TransferMaxFees,
                   fee : {0}, calls : {<< >>}, err : {"none"}]
  /\ DerivationIdle
  /\ WalletIdle
  /\ KeyIdle
  /\ HDKeyIdle
  /\ ArithIdle

\* quoteSendTransaction of the account (lines 279-291) and of the read-only
\* account (lines 589-600)
QuoteSendTransaction(readOnly) ==
  /\ transfer.pc = "new"
  /\ transfer' =
       [transfer EXCEPT
          !.op = IF readOnly THEN "quoteSendTransaction read-only"
                 ELSE "quoteSendTransaction",
          !.pc = "returned",
          !.calls = << "sendTrx", "getAccountResources" >>,
          !.fee = IF readOnly
                  THEN getBandwidthCost(node.raw_data_hex, node.resources)
                  ELSE calculateBandwidthCost(node.raw_data_hex, node.resources)]
  /\ UNCHANGED << node, derivationVars, walletVars, keyVars, hdVars, arithVars >>

\* transfer(options), line 303: const { fee } = await this.quoteTransfer(options)
TransferQuote ==
  /\ transfer.pc = "new"
  /\ LET quote == quoteTransfer(node)
     IN transfer' =
          [transfer EXCEPT
             !.op = "transfer",
             !.calls = IF quote.err = "none"
                       THEN << "triggerConstantContract", "getChainParameters",
                               "getAccountResources", "getAccountResources" >>
                       ELSE << "triggerConstantContract" >>,
             !.fee = quote.fee,
             !.err = quote.err,
             !.pc = IF quote.err = "none" THEN "quoted" ELSE "thrown"]
  /\ UNCHANGED << node, derivationVars, walletVars, keyVars, hdVars, arithVars >>

\* lines 306-308
TransferCheckFee ==
  /\ transfer.pc = "quoted"
  /\ transfer' =
       IF ExceedsMaxFee(transfer.fee, transfer.transferMaxFee)
       THEN [transfer EXCEPT
               !.err = "Exceeded maximum fee cost for transfer operations.",
               !.pc = "thrown"]
       ELSE [transfer EXCEPT !.pc = "checked"]
  /\ UNCHANGED << node, derivationVars, walletVars, keyVars, hdVars, arithVars >>

\* lines 314-321
TransferTriggerSmartContract ==
  /\ transfer.pc = "checked"
  /\ transfer' = [transfer EXCEPT !.calls = Append(@, "triggerSmartContract"),
                                  !.pc = "built"]
  /\ UNCHANGED << node, derivationVars, walletVars, keyVars, hdVars, arithVars >>

\* lines 323-325
TransferSign ==
  /\ transfer.pc = "built"
  /\ transfer' = [transfer EXCEPT !.calls = Append(@, "sign"), !.pc = "signed"]
  /\ UNCHANGED << node, derivationVars, walletVars, keyVars, hdVars, arithVars >>

\* lines 327-337
TransferSendRawTransaction ==
  /\ transfer.pc = "signed"
  /\ transfer' =
       [transfer EXCEPT
          !.calls = Append(@, "sendRawTransaction"),
          !.err = CASE node.sendResult = "result" -> "none"
                    [] node.sendResult = "code" -> "code"
                    [] OTHER -> "Empty response from network",
          !.pc = IF node.sendResult = "result" THEN "returned" ELSE "thrown"]
  /\ UNCHANGED << node, derivationVars, walletVars, keyVars, hdVars, arithVars >>

NextTransfer ==
  \/ \E readOnly \in BOOLEAN : QuoteSendTransaction(readOnly)
  \/ TransferQuote
  \/ TransferCheckFee
  \/ TransferTriggerSmartContract
  \/ TransferSign
  \/ TransferSendRawTransaction

SpecTransfer == InitTransfer /\ [][NextTransfer]_vars

\* ------------------------------------------- the HDKey-backed account class
\* HDKey.fromMasterSeed(seed).derive(path): the library returns a node whose
\* private key is some valid key, or throws on a path it cannot parse
HDKeys == {key \in Buffers(PRIVATE_KEY_SIZE) : IsValidPrivateKey(key)}

\* part_001 lines 64-90: the constructor sets _path, _config, _account and
\* _tronWeb; no _keyPair field is assigned anywhere in the class
HDWalletAccountTron(accountPath, key) ==
  IF parsePath(FullPath(accountPath)).err # "none"
  THEN [status |-> "threw", path |-> << >>, privateKey |-> << >>,
        keyPairUndefined |-> TRUE, heldKeyPair |-> FALSE,
        heldSignature |-> NoSignature]
  ELSE [status |-> "constructed", path |-> FullPath(accountPath),
        privateKey |-> key, keyPairUndefined |-> TRUE, heldKeyPair |-> FALSE,
        heldSignature |-> NoSignature]

InitHDKey ==
  /\ hdAccount = NoHDAccount
  /\ hdCall = NoHDCall
  /\ DerivationIdle
  /\ WalletIdle
  /\ KeyIdle
  /\ TransferIdle
  /\ ArithIdle

HDConstruct ==
  /\ hdAccount.status = "absent"
  /\ \E accountPath \in AccountPaths, key \in HDKeys :
       /\ hdAccount' = HDWalletAccountTron(accountPath, key)
       /\ hdCall' = [op |-> "constructor",
                     err |-> IF hdAccount'.status = "threw"
                             THEN "invalid path" ELSE "none"]
  /\ UNCHANGED << derivationVars, walletVars, keyVars, transferVars, arithVars >>

\* lines 130-135: privateKey is this._account.privateKey itself
HDKeyPair ==
  /\ hdAccount.status = "constructed"
  /\ hdAccount' = [hdAccount EXCEPT !.heldKeyPair = TRUE]
  /\ hdCall' = [op |-> "keyPair", err |-> "none"]
  /\ UNCHANGED << derivationVars, walletVars, keyVars, transferVars, arithVars >>

\* lines 150-158: this._account.sign(messageHash)
HDSign(message) ==
  /\ hdAccount.status = "constructed"
  /\ hdAccount' =
       [hdAccount EXCEPT !.heldSignature = Signature(hdAccount.privateKey, message)]
  /\ hdCall' = [op |-> "sign", err |-> "none"]
  /\ UNCHANGED << derivationVars, walletVars, keyVars, transferVars, arithVars >>

\* lines 365-369: sodium_memzero(this._keyPair.privateKey) reads a field of
\* the undefined this._keyPair, so the statement throws before anything is
\* zeroed; with a _keyPair it would zero that object's privateKey
HDDisposed(account) ==
  IF account.keyPairUndefined
  THEN [err |-> "TypeError", account |-> account]
  ELSE [err |-> "none", account |-> account]

HDDispose ==
  /\ hdAccount.status = "constructed"
  /\ hdAccount' = HDDisposed(hdAccount).account
  /\ hdCall' = [op |-> "dispose", err |-> HDDisposed(hdAccount).err]
  /\ UNCHANGED << derivationVars, walletVars, keyVars, transferVars, arithVars >>

NextHDKey ==
  \/ HDConstruct
  \/ HDKeyPair
  \/ \E m \in Messages : HDSign(m)
  \/ HDDispose

SpecHDKey == InitHDKey /\ [][NextHDKey]_vars

\* --------------------------------------- the byte arithmetic on its own
\* compareWithCurveOrder and addPrivateKeys are called on every pair of
\* buffers of the key size
InitArith ==
  /\ arith \in [op : {"new"}, target : Buffers(PRIVATE_KEY_SIZE),
                addition : Buffers(PRIVATE_KEY_SIZE),
                compared : {0}, carry : {FALSE}]
  /\ DerivationIdle
  /\ WalletIdle
  /\ KeyIdle
  /\ TransferIdle
  /\ HDKeyIdle

\* compareWithCurveOrder(target): reads the buffer, returns -1, 0 or 1
CompareWithCurveOrder ==
  /\ arith.op = "new"
  /\ arith' = [arith EXCEPT !.op = "compareWithCurveOrder",
                            !.compared = compareWithCurveOrder(arith.target)]
  /\ UNCHANGED << derivationVars, walletVars, keyVars, transferVars, hdVars >>

\* addPrivateKeys(target, addition): writes target, returns the carry
AddPrivateKeys ==
  /\ arith.op = "new"
  /\ LET added == addPrivateKeys(arith.target, arith.addition)
     IN arith' = [arith EXCEPT !.op = "addPrivateKeys",
                               !.target = Bytes(added.target),
                               !.carry = added.carry]
  /\ UNCHANGED << derivationVars, walletVars, keyVars, transferVars, hdVars >>

NextArith == CompareWithCurveOrder \/ AddPrivateKeys

SpecArith == InitArith /\ [][NextArith]_vars

\* ------------------------------------------------------------------- claims
\* the scalar a key buffer encodes: its bytes read as a big-endian number
RECURSIVE Scalar(_)
Scalar(key) ==
  IF Len(key) = 0 THEN 0
  ELSE Scalar(SubSeq(key, 1, Len(key) - 1)) * ByteBase + key[Len(key)]

\* IL and IR of the bytes in the HMAC output buffer
IL(hmacOut) == Subarray(hmacOut, 0, PRIVATE_KEY_SIZE)
IR(hmacOut) == Subarray(hmacOut, PRIVATE_KEY_SIZE, Len(hmacOut))

\* this step is one completed iteration of the derivation loop
LoopIteration == pc = "loop" /\ i' = i + 1

\* C1: when derivation returns, the private key in the buffer is a valid
\* scalar: not zero and strictly less than the curve order n.
C1_DerivedScalarValid ==
  pc = "done" => (0 < Scalar(privateKeyBuffer) /\ Scalar(privateKeyBuffer) < CurveN)

\* C2: when the master IL is zero or >= n, derivation (of a path the parser
\* accepts) fails with InvalidMasterKey and no child segment is derived.
C2_InvalidMasterKeyFails ==
  (pc # "new" /\ i = 0 /\ parsePath(path).err = "none"
     /\ (Scalar(IL(hmacOutputBuffer)) = 0 \/ Scalar(IL(hmacOutputBuffer)) >= CurveN)
     /\ privateKeyBuffer = IL(hmacOutputBuffer))
  => (pc = "thrown" /\ err = "InvalidMasterKey")

\* C3: in a step with parent scalar p in 1 .. n-1 and IL < n, the private-key
\* buffer after the step holds exactly (p + IL) mod n.
C3_ChildScalarIsSumModN ==
  [][(LoopIteration
        /\ 0 < Scalar(privateKeyBuffer) /\ Scalar(privateKeyBuffer) < CurveN
        /\ Scalar(IL(hmacOutputBuffer')) < CurveN)
     => Scalar(privateKeyBuffer')
          = (Scalar(privateKeyBuffer) + Scalar(IL(hmacOutputBuffer'))) % CurveN]_vars

\* C3 witness: a step was derived (IL < n, child not zero) in which the sum
\* had to be reduced: the child is smaller than IL, which happens only when
\* a parent in 1 .. n-1 plus IL reached n.
C3_Witness ==
  /\ pc \in {"loop", "done"}
  /\ i >= 1
  /\ Scalar(IL(hmacOutputBuffer)) < CurveN
  /\ 0 < Scalar(privateKeyBuffer)
  /\ Scalar(privateKeyBuffer) < Scalar(IL(hmacOutputBuffer))

\* C4: a skipped step (IL >= n, or child scalar zero) leaves the chain code
\* byte for byte as it was before the step.
C4_SkipKeepsChainCode ==
  [][(LoopIteration
        /\ (Scalar(IL(hmacOutputBuffer')) >= CurveN \/ isBufferZero(privateKeyBuffer')))
     => chainCode(hmacOutputBuffer') = chainCode(hmacOutputBuffer)]_vars

\* C5: when a segment's IL is >= n, the private scalar after the step equals
\* the one before it, no error is raised and the walk goes on to the next
\* segment.
C5_SkipOnLargeILKeepsKey ==
  [][(LoopIteration /\ Scalar(IL(hmacOutputBuffer')) >= CurveN)
     => (privateKeyBuffer' = privateKeyBuffer /\ err' = "none" /\ pc' = "loop")]_vars

\* C5 witness: the first segment of a two-segment walk was skipped for
\* IL >= n with a valid key in the buffer, and the second is still to come.
C5_Witness ==
  /\ pc = "loop"
  /\ i = 1
  /\ Len(indices) = 2
  /\ Scalar(IL(hmacOutputBuffer)) >= CurveN
  /\ 0 < Scalar(privateKeyBuffer) /\ Scalar(privateKeyBuffer) < CurveN

\* C6: when (parent scalar + IL) mod n is zero, the private-key buffer holds
\* after the step the parent scalar it held before it.
C6_SkipOnZeroKeepsKey ==
  [][(LoopIteration
        /\ 0 < Scalar(privateKeyBuffer) /\ Scalar(privateKeyBuffer) < CurveN
        /\ Scalar(IL(hmacOutputBuffer')) < CurveN
        /\ (Scalar(privateKeyBuffer) + Scalar(IL(hmacOutputBuffer'))) % CurveN = 0)
     => (privateKeyBuffer' = privateKeyBuffer /\ pc' = "loop")]_vars

\* the grammar ^[mM](/[0-9]+'?)+$ : one segment, digits and an optional mark
IsSegment(component) ==
  LET digits == IF EndsWithQuote(component)
                THEN SubSeq(component, 1, Len(component) - 1)
                ELSE component
  IN Len(digits) >= 1 /\ \A k \in 1 .. Len(digits) : digits[k] \in Digits

MatchesGrammar(p) ==
  /\ Len(Split(p)) >= 2
  /\ Split(p)[1] \in {<< "m" >>, << "M" >>}
  /\ \A k \in 2 .. Len(Split(p)) : IsSegment(Split(p)[k])

\* C7: path parsing accepts exactly the strings of ^[mM](/[0-9]+'?)+$ : a
\* string is parsed without error if and only if it matches the grammar.
C7_ParserAcceptsExactlyGrammar ==
  pc # "new" => (err = "none" <=> MatchesGrammar(path))

\* a segment whose numeric part does not fit in 31 bits
HasOversizedSegment(p) ==
  \E k \in 2 .. Len(Split(p)) :
    /\ ~parseInt(Split(p)[k]).nan
    /\ NumGE(parseInt(Split(p)[k]), Num(2^15, 0))

\* C8: a path with a segment whose numeric part is >= 2^31 is rejected with
\* the index error, so no such segment is ever derived.
C8_OversizedIndexRejected ==
  (pc # "new" /\ HasOversizedSegment(path))
  => (pc = "thrown" /\ err = "Invalid index in derivation path")

\* C9: deriving with the path "m" succeeds and leaves the master key: the
\* private-key buffer holds IL, the chain code IR, no child step applied.
C9_DepthZeroReturnsMaster ==
  (path = PathM /\ pc # "new")
  => (err = "none" /\ pc \in {"loop", "done"} /\ i = 0
        /\ privateKeyBuffer = IL(hmacOutputBuffer))

\* C9 amended: deriving with the path "m" is rejected with 'Invalid
\* derivation path format'; no child step is applied, and when the error is
\* raised the private-key buffer holds the master IL and the chain code view
\* the master IR.
C9_DepthZeroRejected ==
  (path = PathM /\ pc # "new")
  => (pc = "thrown" /\ err = "Invalid derivation path format" /\ i = 0
        /\ privateKeyBuffer = IL(hmacOutputBuffer)
        /\ isBufferZero(derivationDataBuffer))

\* C9 witness: the path "m" was rejected with master key material in place.
C9_Witness ==
  /\ path = PathM
  /\ pc = "thrown"
  /\ Scalar(privateKeyBuffer) > 0
  /\ ~isBufferZero(chainCode(hmacOutputBuffer))

\* the unsigned 32-bit big-endian bytes of hi * 2^16 + lo
UnsignedBE(hi, lo) == << hi \div 256, hi % 256, lo \div 256, lo % 256 >>

\* the segment the last completed iteration worked on
LastSegment == Split(path)[i + 1]

\* C10, the index bytes: after a step on a hardened segment with numeric part
\* i in 0 .. 2^31-1 the derivation buffer ends with the unsigned big-endian
\* bytes of i + 2^31.
C10_HardenedIndexBytes ==
  (pc \in {"loop", "done"} /\ i >= 1 /\ EndsWithQuote(LastSegment)
     /\ ~NumGE(parseInt(LastSegment), Num(2^15, 0)))
  => Subarray(derivationDataBuffer, 1 + PRIVATE_KEY_SIZE, DerivationDataLen)
       = UnsignedBE(parseInt(LastSegment).hi + 2^15, parseInt(LastSegment).lo)

\* C10, the scenario: deriving "m/2147483647'/0" raises no error and yields a
\* scalar below n.
C10_MaxHardenedDerives ==
  path = PathMaxHardened
  => (pc # "thrown" /\ (pc = "done" => Scalar(privateKeyBuffer) < CurveN))

\* C10: hardened indices are encoded without wrap-around or sign error up to
\* 0xFFFFFFFF, and "m/2147483647'/0" derives without error to a scalar < n.
C10_MaxHardenedIndex == C10_HardenedIndexBytes /\ C10_MaxHardenedDerives

\* ------------------------------------------- claims on the wallet's lifecycle
\* every byte of a buffer is zero
AllZero(buffer) == \A k \in 1 .. Len(buffer) : buffer[k] = 0

\* the three secret buffers of an account hold zeros only
BuffersZeroed(account) ==
  /\ Len(account.privateKeyBuffer) = PRIVATE_KEY_SIZE
  /\ Len(account.hmacOutputBuffer) = PRIVATE_KEY_SIZE + ChainLen
  /\ Len(account.derivationDataBuffer) = DerivationDataLen
  /\ AllZero(account.privateKeyBuffer)
  /\ AllZero(account.hmacOutputBuffer)
  /\ AllZero(account.derivationDataBuffer)

Constructed(a) == accounts[a].status = "constructed"

C12_DisposeZeroesBuffers ==
  (call.op = "dispose" /\ call.err = "none")
    => BuffersZeroed(accounts[call.account])

\* dispose() returned on an account that held a key and a chain code
C12_Witness ==
  /\ call.op = "dispose"
  /\ call.err = "none"
  /\ ~AllZero(accounts[call.account].derived.key)
  /\ ~AllZero(accounts[call.account].derived.chainCode)
  /\ BuffersZeroed(accounts[call.account])

\* C13: no call of account.dispose() raises an error, the second and later
\* ones included.
C13_DisposeIdempotent ==
  call.op = "dispose" => call.err = "none"

C15_KeyPairIsCopy ==
  \A a \in Slots :
    (Constructed(a) /\ ~accounts[a].fieldsNull)
      => accounts[a].privateKeyBuffer = accounts[a].derived.key

\* C16: when the account constructor has thrown, the private key, HMAC
\* output and derivation data buffers it allocated hold zeros only.
C16_NoSecretsAfterFailure ==
  \A a \in Slots :
    accounts[a].status = "threw" => BuffersZeroed(accounts[a])

\* C19: account.verify(message, signature) is true exactly when the
\* signature was made over that message with the account's key.
C19_VerifyAcceptsOnlyOwnSignature ==
  [][\A a \in Slots, m \in Messages, s \in {heldSignature, MalformedSignature} :
       Verify(a, m, s)
         => (call'.ok <=> s = Signature(accounts[a].privateKeyBuffer, m))]_vars

C17_ConstructExactlyOnKeyLength ==
  keyCall.op = "new"
    => /\ keyCall.err = "none" <=> keyCall.len = PRIVATE_KEY_SIZE
       /\ keyCall.err = "none" => signingKey.state = "live"
       /\ keyCall.err # "none"
            => /\ keyCall.err \in { KeyLengthError(v) : v \in KeyVariants }
               /\ signingKey = NoSigningKey

\* a constructor was given a buffer one byte too long and threw
C17_Witness ==
  /\ keyCall.op = "new"
  /\ keyCall.len = PRIVATE_KEY_SIZE + 1
  /\ keyCall.err # "none"
  /\ signingKey = NoSigningKey

\* C18: sign(digest) with a digest of any length but that of a digest
\* throws the digest-length error and returns no signature, whichever the
\* variant of the signing key.
C18_SignRejectsOtherDigestLengths ==
  (keyCall.op = "sign" /\ keyCall.len # DIGEST_SIZE)
    => (keyCall.err = "Digest must be a 32-byte Uint8Array." /\ ~keyCall.ok)

\* --------------------------------------------------------- fees and transfers
\* the calls of a transfer that build, sign or broadcast the transaction
SpendingCalls == {"triggerSmartContract", "sign", "sendRawTransaction"}

Made(name) == \E k \in 1 .. Len(transfer.calls) : transfer.calls[k] = name

FeeChecked == transfer.op = "transfer" /\ transfer.pc \notin {"new", "quoted"}
              /\ transfer.err # "Could not estimate energy. The transaction may fail."

FeeReachesLimit ==
  transfer.transferMaxFee # Undefined /\ transfer.fee >= transfer.transferMaxFee[1]

\* C21: once transfer has compared the quoted fee with transferMaxFee, a fee
\* that reaches the limit means the call was rejected with 'Exceeded maximum
\* fee cost for transfer operations.' with no triggerSmartContract, sign or
\* sendRawTransaction call made, and a fee below the limit (or no limit) means
\* the call was not rejected for the fee and goes on to build, sign and send
C21_NoSpendingPastMaxFee ==
  FeeChecked =>
    IF FeeReachesLimit
    THEN /\ transfer.pc = "thrown"
         /\ transfer.err = "Exceeded maximum fee cost for transfer operations."
         /\ \A name \in SpendingCalls : ~Made(name)
    ELSE /\ transfer.err # "Exceeded maximum fee cost for transfer operations."
         /\ transfer.pc \in {"checked", "built", "signed", "returned", "thrown"}
         /\ transfer.pc = "built" => Made("triggerSmartContract")
         /\ transfer.pc = "signed" => Made("sign")
         /\ transfer.pc \in {"returned", "thrown"} => Made("sendRawTransaction")

\* a transfer was rejected for a fee exactly at the limit
C21_Witness ==
  /\ transfer.op = "transfer"
  /\ transfer.pc = "thrown"
  /\ transfer.transferMaxFee = Some(transfer.fee)
  /\ transfer.fee > 0

\* the bandwidth the account has left, free and frozen
AvailableBandwidth ==
  (OrZero(node.resources.freeNetLimit) - OrZero(node.resources.freeNetUsed))
  + (OrZero(node.resources.NetLimit) - OrZero(node.resources.NetUsed))

Quoted == transfer.pc = "returned"
          /\ transfer.op \in {"quoteSendTransaction", "quoteSendTransaction read-only"}

\* C27: the fee either account class quotes for a transaction is 0 when the
\* available bandwidth covers the length of raw_data_hex and the whole length
\* times 1000 sun otherwise, so the two functions agree on every input
C27_BandwidthFee ==
  Quoted =>
    transfer.fee = IF AvailableBandwidth >= node.raw_data_hex
                   THEN 0
                   ELSE node.raw_data_hex * 1000

\* 64 hex characters and no bandwidth left cost 64000 sun
C27_Witness ==
  /\ Quoted
  /\ node.raw_data_hex = 64
  /\ AvailableBandwidth = 0
  /\ transfer.fee = 64000


\* ------------------------------------------------- the HDKey-backed account
\* C22: a dispose() call on an HDKey-backed account returns normally and
\* leaves the bytes of the private key, the buffer keyPair.privateKey
\* exposes, all zero
C22_HDKeyDisposeZeroesKey ==
  hdCall.op = "dispose" =>
    /\ hdCall.err = "none"
    /\ AllZero(hdAccount.privateKey)


\* ------------------------------------------------ the manager after dispose
ManagerCalls == {"getAccount", "getAccountByPath", "getFeeRates"}

\* C23: the call that follows a dispose() call on the manager, if it is
\* getAccount, getAccountByPath or getFeeRates, fails and creates no account
C23_NothingAfterManagerDispose ==
  [][(call.op = "managerDispose" /\ call'.op \in ManagerCalls)
       => /\ call'.err # "none"
          /\ \A a \in Slots : accounts'[a].status = "constructed" => Constructed(a)]_vars

\* an account that was constructed and disposed by its holder
DisposedByHolder(a) == Constructed(a) /\ accounts[a].fieldsNull

\* C28: a dispose() call on the manager ends without an error, with the seed
\* zeroed and every account it registered disposed and zeroed, whether or not
\* some of them had been disposed by their holders before
C28_ManagerDisposeAfterAccountDispose ==
  call.op = "managerDispose" =>
    /\ call.err = "none"
    /\ AllZero(managerSeed)
    /\ \A a \in Slots : Constructed(a) => DisposedByHolder(a) /\ BuffersZeroed(accounts[a])

\* C29: a dispose() call on one account changes no other account and not the
\* manager's seed, and each other account signs afterwards as it did before
C29_AccountsIsolated ==
  [][(call'.op = "dispose" /\ accounts' # accounts)
       => /\ managerSeed' = managerSeed
          /\ \A b \in Slots \ {call'.account} :
               /\ accounts'[b] = accounts[b]
               /\ (Constructed(b) /\ ~accounts[b].fieldsNull)
                    => /\ SignFailure(accounts'[b]) = SignFailure(accounts[b])
                       /\ accounts'[b].privateKeyBuffer = accounts[b].derived.key]_vars

\* two accounts of one path, the first disposed, the second signed after that
C29_Witness ==
  /\ DisposedByHolder(1)
  /\ Constructed(2)
  /\ accounts[2].path = accounts[1].path
  /\ call = [op |-> "sign", account |-> 2, err |-> "none", ok |-> TRUE]
  /\ heldSignature.signer = accounts[2].derived.key

\* C30: the key buffer of a disposed account, which is the buffer its signing
\* key was given and the buffer every earlier keyPair.privateKey refers to,
\* holds zeros only
C30_NoReferenceKeepsKey ==
  \A a \in Slots : DisposedByHolder(a) => AllZero(accounts[a].privateKeyBuffer)

\* the caller read keyPair of an account with a non-zero key, then disposed it
C30_Witness ==
  /\ heldKeyPair \in Slots
  /\ DisposedByHolder(heldKeyPair)
  /\ ~AllZero(accounts[heldKeyPair].derived.key)
  /\ call.op = "dispose"


\* ------------------------------------------- the helpers of the derivation
\* the derivation buffer written by this step has the layout for the index
DerivationDataLaidOut ==
  LET index == indices[i + 1]
      data == derivationDataBuffer'
  IN /\ Len(data) = DerivationDataLen
     /\ ~index.nan
     /\ Subarray(data, 1 + PRIVATE_KEY_SIZE, DerivationDataLen)
          = UnsignedBE(index.hi, index.lo)
     /\ IF NumGE(index, HARDENED_OFFSET)
        THEN /\ data[1] = 0
             /\ Subarray(data, 1, 1 + PRIVATE_KEY_SIZE) = privateKeyBuffer
        ELSE Subarray(data, 0, 1 + PRIVATE_KEY_SIZE) = getPublicKey(privateKeyBuffer)

\* C24: the derivation buffer a step feeds to the HMAC is, for a hardened
\* index, a zero byte, the parent's private key and the four big-endian bytes
\* of the index, and for a normal index the parent's compressed public key
\* and the four big-endian bytes of the index; every byte of the buffer is
\* one of these, so nothing of an earlier step is left in it
C24_DerivationDataLayout == [][LoopIteration => DerivationDataLaidOut]_vars

\* C24, the steps whose index fits in 32 bits: the layout is as stated
C24_LayoutForUInt32Index ==
  [][(LoopIteration /\ indices[i + 1].hi < LimbBase) => DerivationDataLaidOut]_vars


\* the most significant byte position (from 1) where the buffer differs
\* from the curve order, 0 when there is none
FirstDifference(buffer) ==
  LET differing == {k \in 1 .. PRIVATE_KEY_SIZE : buffer[k] # CurveOrderByte(k - 1)}
  IN IF differing = {} THEN 0
     ELSE CHOOSE k \in differing : \A j \in differing : k <= j

\* C25: compareWithCurveOrder returns -1, 0 or 1 as the big-endian value of
\* the buffer is below, equal to or above n, and the answer is the one the
\* most significant byte that differs from n gives
C25_CompareIsOrderOnScalars ==
  arith.op = "compareWithCurveOrder" =>
    LET value == Scalar(arith.target)
        k == FirstDifference(arith.target)
    IN /\ arith.compared = (IF value < CurveN THEN -1 ELSE IF value = CurveN THEN 0 ELSE 1)
       /\ arith.compared = (IF k = 0 THEN 0
                            ELSE IF arith.target[k] > CurveOrderByte(k - 1) THEN 1
                            ELSE -1)

\* a buffer above n whose first byte equals that of n was compared
C25_Witness ==
  /\ arith.op = "compareWithCurveOrder"
  /\ arith.compared = 1
  /\ FirstDifference(arith.target) > 1
  /\ arith.target[PRIVATE_KEY_SIZE] < CurveOrderByte(PRIVATE_KEY_SIZE - 1)

====
